---- MODULE Spec2Model ----
(***************************************************************************)
(* Sinkproof v1: hash_password / verify_password, the worker fan-out and   *)
(* join, key derivation, the AES-256-GCM verification phrase and the       *)
(* "Sinkproof:v1:threads:memory:salt:phrase" record codec.                 *)
(*                                                                         *)
(* Conventions.                                                            *)
(*   usize   a 64-bit machine word, kept as four 16-bit limbs, least       *)
(*           significant first, so that overflow is exact.                 *)
(*   byte    <<0, b>> is the concrete byte b (0..255); <<id, k>> with      *)
(*           id > 0 is the k-th byte of the AES-GCM output (ciphertext     *)
(*           followed by tag) of the id-th encryption in `sealed`.         *)
(*   char    <<c>> is the character with code c; <<at, g>> is the at-th    *)
(*           base64 character of a 1..3 byte group g that holds a          *)
(*           ciphertext byte.                                              *)
(*   SHA-256 and AES-GCM are ideal: a digest is the term of what was       *)
(*           hashed, a ciphertext opens only under its own key and nonce.  *)
(***************************************************************************)
EXTENDS Integers, Sequences, FiniteSets, TLC

\* ------------------------------------------------------------- bounds
\* Largest thread count a caller passes or a stored record carries.
MaxThreads == 2
\* Number of distinct passwords a caller may present.
NumPasswords == 2
\* Number of distinct values the random source may return for a salt.
NumSalts == 1
\* Number of distinct values the random source may return for a nonce.
NumNonces == 1
\* Longest salt / phrase byte string of the codec round trip.
MaxBytesLen == 3
\* Number of encrypt_phrase calls made with one key.
MaxEncryptCalls == 2
\* Largest number of loop iterations of a worker that is followed step by step.
MaxIterations == 2001

\* ------------------------------------------------------------- usize
LimbBase == 65536

usize_zero == <<0, 0, 0, 0>>

\* The word holding n, for 0 <= n < 2^31.
USize(n) == <<n % LimbBase, (n \div LimbBase) % LimbBase, 0, 0>>

USizeIsSmall(x) == x[3] = 0 /\ x[4] = 0 /\ x[2] < 16384

USizeToNat(x) == x[2] * LimbBase + x[1]

\* x * k for a small k: the low 64 bits and what was carried out of them.
UMulSmall(x, k) ==
  LET p1 == x[1] * k
      p2 == x[2] * k + (p1 \div LimbBase)
      p3 == x[3] * k + (p2 \div LimbBase)
      p4 == x[4] * k + (p3 \div LimbBase)
  IN  [val   |-> <<p1 % LimbBase, p2 % LimbBase, p3 % LimbBase, p4 % LimbBase>>,
       carry |-> p4 \div LimbBase]

\* x + d for a small d.
UAddSmall(x, d) ==
  LET s1 == x[1] + d
      s2 == x[2] + (s1 \div LimbBase)
      s3 == x[3] + (s2 \div LimbBase)
      s4 == x[4] + (s3 \div LimbBase)
  IN  [val   |-> <<s1 % LimbBase, s2 % LimbBase, s3 % LimbBase, s4 % LimbBase>>,
       carry |-> s4 \div LimbBase]

\* x / d and x % d for a small d > 0.
UDivSmall(x, d) ==
  LET t4 == x[4]
      t3 == (t4 % d) * LimbBase + x[3]
      t2 == (t3 % d) * LimbBase + x[2]
      t1 == (t2 % d) * LimbBase + x[1]
  IN  [quot |-> <<t1 \div d, t2 \div d, t3 \div d, t4 \div d>>,
       rem  |-> t1 % d]

\* ------------------------------------------------------------- text
Txt(codes) == [i \in 1..Len(codes) |-> <<codes[i]>>]

Colon == <<58>>
PadChar == <<61>>

IsConcreteChar(c) == Len(c) = 1

\* str::split(':'): the fields between the separators (one field if none).
RECURSIVE split(_, _)
split(text, sep) ==
  IF \A i \in 1..Len(text) : text[i] # sep
  THEN <<text>>
  ELSE LET i == CHOOSE k \in 1..Len(text) :
                   text[k] = sep /\ \A j \in 1..(k - 1) : text[j] # sep
       IN  <<SubSeq(text, 1, i - 1)>> \o split(SubSeq(text, i + 1, Len(text)), sep)

\* usize's Display: decimal, no leading zeros.
RECURSIVE usize_to_string(_)
usize_to_string(x) ==
  LET d == UDivSmall(x, 10)
  IN  IF d.quot = usize_zero
      THEN <<<<48 + d.rem>>>>
      ELSE Append(usize_to_string(d.quot), <<48 + d.rem>>)

IsDigit(c) == IsConcreteChar(c) /\ c[1] >= 48 /\ c[1] <= 57

\* The checked accumulation of str::parse::<usize>: digits into acc, or none.
RECURSIVE parse_digits(_, _)
parse_digits(digits, acc) ==
  IF digits = <<>> THEN [ok |-> TRUE, val |-> acc]
  ELSE IF ~IsDigit(Head(digits)) THEN [ok |-> FALSE, val |-> usize_zero]
  ELSE LET m == UMulSmall(acc, 10)
           a == UAddSmall(m.val, Head(digits)[1] - 48)
       IN  IF m.carry # 0 \/ a.carry # 0
           THEN [ok |-> FALSE, val |-> usize_zero]
           ELSE parse_digits(Tail(digits), a.val)

\* str::parse::<usize>: an optional '+', then one or more decimal digits that
\* fit the word.
parse_usize(text) ==
  IF text = <<>> THEN [ok |-> FALSE, val |-> usize_zero]
  ELSE IF Len(text) = 1 /\ (text[1] = <<43>> \/ text[1] = <<45>>)
       THEN [ok |-> FALSE, val |-> usize_zero]
  ELSE IF text[1] = <<43>> THEN parse_digits(Tail(text), usize_zero)
  ELSE parse_digits(text, usize_zero)

\* ------------------------------------------------------------- base64
IsConcreteByte(b) == b[1] = 0

\* The STANDARD alphabet: A-Z a-z 0-9 + /
B64Char(i) ==
  IF i < 26 THEN 65 + i
  ELSE IF i < 52 THEN 97 + (i - 26)
  ELSE IF i < 62 THEN 48 + (i - 52)
  ELSE IF i = 62 THEN 43 ELSE 47

\* The sextet a character stands for, or -1.
B64Index(c) ==
  IF c >= 65 /\ c <= 90 THEN c - 65
  ELSE IF c >= 97 /\ c <= 122 THEN c - 97 + 26
  ELSE IF c >= 48 /\ c <= 57 THEN c - 48 + 52
  ELSE IF c = 43 THEN 62
  ELSE IF c = 47 THEN 63 ELSE -1

\* b64_encode_group without the padding (the NO_PAD engine).
b64_encode_group_no_pad(g) ==
  LET n == Len(g)
  IN  IF \A i \in 1..n : IsConcreteByte(g[i])
      THEN LET b0 == g[1][2]
               b1 == IF n >= 2 THEN g[2][2] ELSE 0
               b2 == IF n >= 3 THEN g[3][2] ELSE 0
           IN  SubSeq(<< <<B64Char(b0 \div 4)>>,
                         <<B64Char((b0 % 4) * 16 + (b1 \div 16))>>,
                         <<B64Char((b1 % 16) * 4 + (b2 \div 64))>>,
                         <<B64Char(b2 % 64)>> >>, 1, n + 1)
      ELSE SubSeq(<< <<0, g>>, <<1, g>>, <<2, g>>, <<3, g>> >>, 1, n + 1)

\* One group of 1..3 bytes to 4 characters, '=' padded.
b64_encode_group(g) ==
  LET n == Len(g)
  IN  IF \A i \in 1..n : IsConcreteByte(g[i])
      THEN LET b0 == g[1][2]
               b1 == IF n >= 2 THEN g[2][2] ELSE 0
               b2 == IF n >= 3 THEN g[3][2] ELSE 0
           IN  << <<B64Char(b0 \div 4)>>,
                  <<B64Char((b0 % 4) * 16 + (b1 \div 16))>>,
                  IF n >= 2 THEN <<B64Char((b1 % 16) * 4 + (b2 \div 64))>> ELSE PadChar,
                  IF n >= 3 THEN <<B64Char(b2 % 64)>> ELSE PadChar >>
      ELSE << <<0, g>>, <<1, g>>,
              IF n >= 2 THEN <<2, g>> ELSE PadChar,
              IF n >= 3 THEN <<3, g>> ELSE PadChar >>

\* general_purpose::STANDARD.encode
RECURSIVE b64_encode(_)
b64_encode(bytes) ==
  IF bytes = <<>> THEN <<>>
  ELSE IF Len(bytes) <= 3 THEN b64_encode_group(bytes)
  ELSE b64_encode_group(SubSeq(bytes, 1, 3)) \o b64_encode(SubSeq(bytes, 4, Len(bytes)))

\* How many characters of a 4-character group are not padding; padding is
\* legal only as the last one or two characters of the last group.
GroupData(q, last) ==
  IF q[4] # PadChar THEN 4
  ELSE IF ~last THEN 0
  ELSE IF q[3] # PadChar THEN 3
  ELSE 2

\* One group of 4 characters back to its bytes.
b64_decode_group(q, last) ==
  LET n == GroupData(q, last)
      bad == [ok |-> FALSE, bytes |-> <<>>]
  IN  IF n = 0 THEN bad
      ELSE IF \A i \in 1..n : IsConcreteChar(q[i])
      THEN LET s == [i \in 1..4 |-> IF i <= n THEN B64Index(q[i][1]) ELSE 0]
           IN  IF \E i \in 1..n : s[i] < 0 THEN bad
               ELSE IF n = 2 /\ s[2] % 16 # 0 THEN bad
               ELSE IF n = 3 /\ s[3] % 4 # 0 THEN bad
               ELSE [ok |-> TRUE,
                     bytes |-> SubSeq(<< <<0, s[1] * 4 + (s[2] \div 16)>>,
                                         <<0, (s[2] % 16) * 16 + (s[3] \div 4)>>,
                                         <<0, (s[3] % 4) * 64 + s[4]>> >>, 1, n - 1)]
      ELSE IF \A i \in 1..n : ~IsConcreteChar(q[i]) /\ q[i][1] = i - 1
                                 /\ q[i][2] = q[1][2]
              /\ Len(q[1][2]) = n - 1
           THEN [ok |-> TRUE, bytes |-> q[1][2]]
           ELSE bad

\* general_purpose::STANDARD.decode: canonical padding, no trailing bits.
RECURSIVE b64_decode(_)
b64_decode(text) ==
  IF text = <<>> THEN [ok |-> TRUE, bytes |-> <<>>]
  ELSE IF Len(text) < 4 THEN [ok |-> FALSE, bytes |-> <<>>]
  ELSE LET g == b64_decode_group(SubSeq(text, 1, 4), Len(text) = 4)
       IN  IF ~g.ok THEN g
           ELSE LET r == b64_decode(SubSeq(text, 5, Len(text)))
                IN  IF ~r.ok THEN r
                    ELSE [ok |-> TRUE, bytes |-> g.bytes \o r.bytes]

\* ------------------------------------------------------------- storage.rs
SinkproofName == Txt(<<83, 105, 110, 107, 112, 114, 111, 111, 102>>)
VersionV1 == Txt(<<118, 49>>)

SinkproofHash(version, threads, memory_mb, salt, encrypted_phrase) ==
  [version |-> version, threads |-> threads, memory_mb |-> memory_mb,
   salt |-> salt, encrypted_phrase |-> encrypted_phrase]

NoRecord == SinkproofHash(<<>>, usize_zero, usize_zero, <<>>, <<>>)

\* SinkproofHash::to_string
to_string(r) ==
  SinkproofName \o <<Colon>> \o r.version \o <<Colon>>
    \o usize_to_string(r.threads) \o <<Colon>>
    \o usize_to_string(r.memory_mb) \o <<Colon>>
    \o b64_encode(r.salt) \o <<Colon>>
    \o b64_encode(r.encrypted_phrase)

\* from_string without the test of the first field.
from_string_any_name(hash_str) ==
  LET parts == split(hash_str, Colon)
      fail(e) == [ok |-> FALSE, err |-> e, val |-> NoRecord]
  IN  IF Len(parts) # 6 THEN fail("Invalid hash format")
      ELSE LET threads == parse_usize(parts[3])
           IN  IF ~threads.ok THEN fail("Invalid threads value")
      ELSE LET memory_mb == parse_usize(parts[4])
           IN  IF ~memory_mb.ok THEN fail("Invalid memory value")
      ELSE LET salt == b64_decode(parts[5])
           IN  IF ~salt.ok THEN fail("Invalid salt encoding")
      ELSE LET phrase == b64_decode(parts[6])
           IN  IF ~phrase.ok THEN fail("Invalid encrypted phrase encoding")
      ELSE [ok |-> TRUE, err |-> "",
            val |-> SinkproofHash(parts[2], threads.val, memory_mb.val,
                                  salt.bytes, phrase.bytes)]

\* SinkproofHash::from_string: the record, or the first error met.
from_string(hash_str) ==
  LET parts == split(hash_str, Colon)
      fail(e) == [ok |-> FALSE, err |-> e, val |-> NoRecord]
  IN  IF Len(parts) # 6 THEN fail("Invalid hash format")
      ELSE IF parts[1] # SinkproofName THEN fail("Invalid hash name")
      ELSE LET threads == parse_usize(parts[3])
           IN  IF ~threads.ok THEN fail("Invalid threads value")
      ELSE LET memory_mb == parse_usize(parts[4])
           IN  IF ~memory_mb.ok THEN fail("Invalid memory value")
      ELSE LET salt == b64_decode(parts[5])
           IN  IF ~salt.ok THEN fail("Invalid salt encoding")
      ELSE LET phrase == b64_decode(parts[6])
           IN  IF ~phrase.ok THEN fail("Invalid encrypted phrase encoding")
      ELSE [ok |-> TRUE, err |-> "",
            val |-> SinkproofHash(parts[2], threads.val, memory_mb.val,
                                  salt.bytes, phrase.bytes)]

\* ------------------------------------------------------------- digests
\* SHA-256 of the concatenation of `parts`, 32 bytes.
Sha256(parts) == [len |-> 32, src |-> <<"sha256", parts>>]

NoDigest == [len |-> 0, src |-> <<"none", <<>>>>]

\* ------------------------------------------------------------- hasher.rs
SaltLen == 32

Passwords == 1..NumPasswords

\* generate_salt with a 16-byte buffer.
generate_salt_16 == {[i \in 1..16 |-> <<0, (16 * s + i) % 256>>] : s \in 1..NumSalts}

\* generate_salt: 32 bytes from the random source.
generate_salt == {[i \in 1..SaltLen |-> <<0, (16 * s + i) % 256>>] : s \in 1..NumSalts}

\* memory_mb * 1024 * 1024 in machine words: the wrapped product, and whether
\* either multiplication overflowed.
memory_size_bytes(memory_mb) ==
  LET a == UMulSmall(memory_mb, 1024)
      b == UMulSmall(a.val, 1024)
  IN  [val |-> b.val, overflow |-> a.carry # 0 \/ b.carry # 0]

\* Vec::<Vec<u8>>::with_capacity(iterations) panics ("capacity overflow") when
\* iterations * size_of::<Vec<u8>>() exceeds isize::MAX.
VecHeaderSize == 24

capacity_overflow(iterations) ==
  LET m == UMulSmall(iterations, VecHeaderSize)
  IN  m.carry # 0 \/ m.val[4] >= 32768

\* The number of loop iterations of the worker.
worker_iterations(memory_size) == UDivSmall(memory_size, 32).quot

\* Whether thread_worker panics instead of returning.
thread_worker_panics(memory_size) == capacity_overflow(worker_iterations(memory_size))

\* The table fill and the choice of the last 512 bytes: a function of the
\* first digest and of the number of iterations alone.
memory_fill(h0, iterations) == [len |-> 512, src |-> <<"memory_fill", <<h0, iterations>>>>]

\* thread_worker with the password left out of the first digest.
thread_worker_without_password(password, salt, thread_index, memory_size) ==
  memory_fill(Sha256(<<0, salt, USize(thread_index)>>),
              worker_iterations(memory_size))

\* thread_worker: the 512-byte output for (password, salt, thread_index,
\* memory_size).
thread_worker(password, salt, thread_index, memory_size) ==
  memory_fill(Sha256(<<password, salt, USize(thread_index)>>),
              worker_iterations(memory_size))

\* derive_key: SHA-256 over the outputs in the order of the list.
derive_key(thread_outputs) == Sha256(thread_outputs)

\* ------------------------------------------------------------- thread_worker, step by step
\* The worker's loop on a table short enough to follow. A digest that sits in
\* the table is written by its position: Entry(i) is the 32 bytes of memory[i]
\* (positions count from 0 as in the code; the sequence `memory` holds
\* memory[i] at i + 1).
DigestLen == 32
OutputLen == 512
OutputEntries == 16
RotateEvery == 100
RotateModulus == 16
RemixAfter == 1000
RemixEvery == 500

Entry(i) == [memory |-> i]

\* The first digest: password, salt, thread_index.to_le_bytes().
worker_h0(password, salt, thread_index) == Sha256(<<password, salt, USize(thread_index)>>)

\* SHA-256 chaining: current_hash, i.to_le_bytes().
worker_chain(current_hash, i) == Sha256(<<current_hash, USize(i)>>)

\* worker_xor_index mixing with the entry before this one.
worker_xor_index_previous(i, memory) == (i - 1) % Len(memory)

\* prev_index = i % memory.len().
worker_xor_index(i, memory) == i % Len(memory)

\* The XOR with memory[prev_index] when i > 0 and the rotation by (i % 16) + 1
\* when i % 100 == 0, applied to `digest`: <<>> is no XOR, 0 no rotation.
worker_mix(digest, i, memory) ==
  [digest |-> digest,
   xor_with |-> IF i > 0 THEN <<Entry(worker_xor_index(i, memory))>> ELSE <<>>,
   rotate_left |-> IF i % RotateEvery = 0 THEN (i % RotateModulus) + 1 ELSE 0]

\* Whether iteration i mixes with a distant entry.
worker_remixes(i) == i > RemixAfter /\ i % RemixEvery = 0

\* The periodic mixing: current_hash, memory[(i / 2) % memory.len()].
worker_remix(current_hash, i, memory) ==
  IF worker_remixes(i)
  THEN Sha256(<<current_hash, Entry((i \div 2) % Len(memory))>>)
  ELSE current_hash

\* worker_iteration with the periodic mixing done before the push.
worker_iteration_remix_first(w) ==
  LET i == w.i
      mixed == worker_mix(worker_chain(w.current_hash, i), i, w.memory)
      remixed == IF worker_remixes(i)
                 THEN Sha256(<<mixed, Entry((i \div 2) % Len(w.memory))>>)
                 ELSE mixed
  IN  [w EXCEPT !.memory = Append(w.memory, remixed),
                !.current_hash = Entry(i),
                !.i = i + 1]

\* One turn of `for i in 0..iterations`: chain, XOR, rotate, push, remix.
\* After the push current_hash is the digest at memory[i].
worker_iteration(w) ==
  LET i == w.i
      mixed == worker_mix(worker_chain(w.current_hash, i), i, w.memory)
      memory == Append(w.memory, mixed)
  IN  [w EXCEPT !.memory = memory,
                !.current_hash = worker_remix(Entry(i), i, memory),
                !.i = i + 1]

\* worker_output without the padding loop.
worker_output_unpadded(memory, current_hash) ==
  LET start_index == IF Len(memory) > OutputEntries THEN Len(memory) - OutputEntries ELSE 0
  IN  [k \in 1..(Len(memory) - start_index) |-> Entry(start_index + k - 1)]

\* worker_output taking the table from its start (`&memory[..]`).
worker_output_from_start(memory, current_hash) ==
  LET taken == [k \in 1..Len(memory) |-> Entry(k - 1)]
      missing == IF Len(taken) * DigestLen < OutputLen
                 THEN (OutputLen - Len(taken) * DigestLen + DigestLen - 1) \div DigestLen
                 ELSE 0
      padded == taken \o [k \in 1..missing |-> current_hash]
  IN  IF Len(padded) * DigestLen > OutputLen
      THEN SubSeq(padded, 1, OutputLen \div DigestLen)
      ELSE padded

\* The 32-byte pieces of the returned bytes: memory[start_index..], then
\* current_hash while shorter than 512 bytes, truncated to 512 bytes.
worker_output(memory, current_hash) ==
  LET start_index == IF Len(memory) > OutputEntries THEN Len(memory) - OutputEntries ELSE 0
      taken == [k \in 1..(Len(memory) - start_index) |-> Entry(start_index + k - 1)]
      missing == IF Len(taken) * DigestLen < OutputLen
                 THEN (OutputLen - Len(taken) * DigestLen + DigestLen - 1) \div DigestLen
                 ELSE 0
      padded == taken \o [k \in 1..missing |-> current_hash]
  IN  IF Len(padded) * DigestLen > OutputLen
      THEN SubSeq(padded, 1, OutputLen \div DigestLen)
      ELSE padded

\* ------------------------------------------------------------- encryption.rs
VERIFICATION_PHRASE == "No vendo cigarros sueltos"
KeyLen == 32
NonceLen == 12
TagLen == 16

Plain(str) == [utf8 |-> TRUE, str |-> str]

\* The bytes AES-GCM returns for the id-th encryption of `log`: as many as the
\* plaintext, then the tag.
gcm_output(log, id) == [k \in 1..(Len(log[id].pt.str) + TagLen) |-> <<id, k>>]

\* Aes256Gcm::encrypt under (key, nonce): the encryption is entered in the log
\* (the same key, nonce and plaintext give the same bytes).
gcm_encrypt(log, key, nonce, pt) ==
  LET e == [key |-> key, nonce |-> nonce, pt |-> pt]
  IN  IF \E id \in 1..Len(log) : log[id] = e
      THEN [log |-> log, id |-> CHOOSE id \in 1..Len(log) : log[id] = e]
      ELSE [log |-> Append(log, e), id |-> Len(log) + 1]

\* Aes256Gcm::decrypt under (key, nonce): the plaintext when the bytes are the
\* output of an encryption under this key and nonce, else an error.
gcm_decrypt(log, key, nonce, ciphertext) ==
  LET hits == {id \in 1..Len(log) :
                 /\ log[id].key = key
                 /\ log[id].nonce = nonce
                 /\ gcm_output(log, id) = ciphertext}
  IN  IF Len(ciphertext) < TagLen \/ hits = {}
      THEN [ok |-> FALSE, pt |-> Plain("")]
      ELSE [ok |-> TRUE, pt |-> log[CHOOSE id \in hits : TRUE].pt]

\* The key encrypt_phrase hands to the cipher.
encrypt_key(key) ==
  IF key.len > KeyLen THEN [len |-> KeyLen, src |-> <<"first32", key.src>>]
  ELSE IF key.len < KeyLen THEN Sha256(<<key>>)
  ELSE key

\* decrypt_key with `<=` for `<`: a 32-byte key is hashed too.
decrypt_key_hashes_32(key) ==
  IF key.len > KeyLen THEN [len |-> KeyLen, src |-> <<"first32", key.src>>]
  ELSE Sha256(<<key>>)

\* The key decrypt_phrase hands to the cipher.
decrypt_key(key) ==
  IF key.len > KeyLen THEN [len |-> KeyLen, src |-> <<"first32", key.src>>]
  ELSE IF key.len < KeyLen THEN Sha256(<<key>>)
  ELSE key

\* encrypt_phrase with a constant nonce (`Nonce::default()`).
encrypt_phrase_constant_nonce(log, key, nonce) ==
  LET zero == [i \in 1..NonceLen |-> <<0, 0>>]
      e == gcm_encrypt(log, encrypt_key(key), zero, Plain(VERIFICATION_PHRASE))
  IN  [log |-> e.log, bytes |-> zero \o gcm_output(e.log, e.id)]

\* encrypt_phrase with the nonce the random source returned: nonce, then
\* ciphertext and tag.
encrypt_phrase(log, key, nonce) ==
  LET e == gcm_encrypt(log, encrypt_key(key), nonce, Plain(VERIFICATION_PHRASE))
  IN  [log |-> e.log, bytes |-> nonce \o gcm_output(e.log, e.id)]

\* decrypt_phrase: the phrase as a string, or an error.
decrypt_phrase(log, key, encrypted_data) ==
  IF Len(encrypted_data) < NonceLen
  THEN [ok |-> FALSE, str |-> "", err |-> "Encrypted data too short"]
  ELSE LET d == gcm_decrypt(log, decrypt_key(key),
                            SubSeq(encrypted_data, 1, NonceLen),
                            SubSeq(encrypted_data, NonceLen + 1, Len(encrypted_data)))
       IN  IF ~d.ok THEN [ok |-> FALSE, str |-> "", err |-> "Decryption failed"]
           ELSE IF ~d.pt.utf8 THEN [ok |-> FALSE, str |-> "", err |-> "Invalid UTF-8"]
           ELSE [ok |-> TRUE, str |-> d.pt.str, err |-> ""]

\* Aes256Gcm::generate_nonce: 12 bytes from the random source.
generate_nonce == {[i \in 1..NonceLen |-> <<0, (32 * n + i) % 256>>] : n \in 1..NumNonces}

\* ------------------------------------------------------------- state
VARIABLES
  overflow_checks,  \* whether the build checks integer overflow (debug) or wraps
  sealed,           \* the AES-GCM encryptions made so far: [key, nonce, pt]
  h,                \* the hash_password call
  v,                \* the verify_password call
  codec,            \* a to_string / from_string run on a record
  tw,               \* a thread_worker call followed step by step
  enc               \* two encrypt_phrase calls and the decryption of their blobs

vars == <<overflow_checks, sealed, h, v, codec, tw, enc>>

NoHashReturn == [tag |-> "none", hash |-> NoRecord, err |-> ""]
NoVerifyReturn == [tag |-> "none", val |-> FALSE, err |-> ""]

HashIdle ==
  [pc |-> "idle", password |-> 0, threads |-> usize_zero, memory_mb |-> usize_zero,
   salt |-> <<>>, memory_size |-> usize_zero, workers |-> <<>>, finished |-> <<>>,
   thread_outputs |-> <<>>, key |-> NoDigest, ret |-> NoHashReturn]

VerifyIdle ==
  [pc |-> "idle", password |-> 0, stored_hash |-> <<>>, hash |-> NoRecord,
   memory_size |-> usize_zero, workers |-> <<>>, finished |-> <<>>,
   thread_outputs |-> <<>>, key |-> NoDigest, ret |-> NoVerifyReturn]

CodecIdle == [pc |-> "idle", rec |-> NoRecord, text |-> <<>>, parsed |-> from_string(<<>>)]

\* A thread_worker call: its arguments, its locals, what it returned, and
\* what the call before it with the same arguments returned.
NoOutput == [result |-> <<>>, memory |-> <<>>]

WorkerIdle ==
  [pc |-> "idle", calls |-> 0, password |-> 0, salt |-> <<>>, thread_index |-> 0,
   memory_size |-> usize_zero, iterations |-> 0, i |-> 0, turns |-> 0,
   current_hash |-> NoDigest, memory |-> <<>>, result |-> <<>>, first |-> NoOutput]

NotOpened == [done |-> FALSE, res |-> [ok |-> FALSE, str |-> "", err |-> ""]]

EncryptIdle ==
  [pc |-> "idle", key |-> NoDigest, nonces |-> <<>>, blobs |-> <<>>,
   opened |-> [k \in 1..MaxEncryptCalls |-> NotOpened]]

\* ------------------------------------------------------------- workers
\* thread::spawn at the end of the handle list.
spawn_worker(workers) == Append(workers, [st |-> "running", out |-> NoDigest])

\* The closure a spawned thread runs, to its end: the output, or a panic.
run_worker(password, salt, thread_index, memory_size) ==
  IF thread_worker_panics(memory_size)
  THEN [st |-> "panicked", out |-> NoDigest]
  ELSE [st |-> "done", out |-> thread_worker(password, salt, thread_index, memory_size)]

\* hash_next_handle taking the handles from the back (`handles.pop()`).
hash_next_handle_from_back(workers, thread_outputs) == Len(workers) - Len(thread_outputs)

\* The handle the join loop of hash_password waits on next: `for handle in
\* handles`, in the order they were pushed.
hash_next_handle(workers, thread_outputs) == Len(thread_outputs) + 1

\* The handle the join loop of verify_password waits on next.
verify_next_handle(workers, thread_outputs) == Len(thread_outputs) + 1

\* ------------------------------------------------------------- hash_password
\* hash_password_check without the memory_mb test.
hash_password_check_threads_only(threads, memory_mb) ==
  IF threads = usize_zero THEN "Number of threads must be greater than 0" ELSE ""

\* The parameter check at the head of hash_password: the error, or "".
hash_password_check(threads, memory_mb) ==
  IF threads = usize_zero THEN "Number of threads must be greater than 0"
  ELSE IF memory_mb = usize_zero THEN "Memory size must be greater than 0"
  ELSE ""

\* hash_password up to the spawn loop.
hash_password_enter(password, threads, memory_mb, salt) ==
  LET e == hash_password_check(threads, memory_mb)
      m == memory_size_bytes(memory_mb)
      call == [HashIdle EXCEPT !.password = password, !.threads = threads,
                               !.memory_mb = memory_mb]
  IN  IF e # ""
      THEN [call EXCEPT !.pc = "returned", !.ret = [NoHashReturn EXCEPT !.tag = "err", !.err = e]]
      ELSE IF m.overflow /\ overflow_checks
      THEN [call EXCEPT !.pc = "panicked", !.salt = salt]
      ELSE [call EXCEPT !.pc = "running", !.salt = salt, !.memory_size = m.val]

\* hash_password_joined with a panicked worker's output defaulted
\* (`handle.join().unwrap_or_default()`).
hash_password_joined_defaulting(call, w) ==
  [call EXCEPT !.thread_outputs = Append(@, w.out)]

\* hash_password_joined that goes on waiting for a worker that panicked.
hash_password_joined_waiting(call, w) ==
  IF w.st = "panicked" THEN call
  ELSE [call EXCEPT !.thread_outputs = Append(@, w.out)]

\* One turn of the join loop of hash_password on a finished worker w.
hash_password_joined(call, w) ==
  IF w.st = "done"
  THEN [call EXCEPT !.thread_outputs = Append(@, w.out)]
  ELSE [call EXCEPT !.pc = "returned",
                    !.ret = [NoHashReturn EXCEPT !.tag = "err",
                                                 !.err = "Thread panicked during execution"]]

\* hash_password after the join loop: key, phrase, record.
hash_password_finish(call, log, nonce) ==
  LET key == derive_key(call.thread_outputs)
      e == encrypt_phrase(log, key, nonce)
  IN  [log |-> e.log,
       call |-> [call EXCEPT !.pc = "returned", !.key = key,
                   !.ret = [NoHashReturn EXCEPT !.tag = "ok",
                              !.hash = SinkproofHash(VersionV1, call.threads,
                                         call.memory_mb, call.salt, e.bytes)]]]

\* ------------------------------------------------------------- verify_password
VerifierPhrase == "No vendo cigarros sueltos"

\* verify_password up to the spawn loop.
verify_password_enter(password, stored_hash) ==
  LET p == from_string(stored_hash)
      m == memory_size_bytes(p.val.memory_mb)
      call == [VerifyIdle EXCEPT !.password = password, !.stored_hash = stored_hash]
  IN  IF ~p.ok
      THEN [call EXCEPT !.pc = "returned", !.ret = [NoVerifyReturn EXCEPT !.tag = "err", !.err = p.err]]
      ELSE IF m.overflow /\ overflow_checks
      THEN [call EXCEPT !.pc = "panicked", !.hash = p.val]
      ELSE [call EXCEPT !.pc = "running", !.hash = p.val, !.memory_size = m.val]

\* One turn of the join loop of verify_password on a finished worker w.
verify_password_joined(call, w) ==
  IF w.st = "done"
  THEN [call EXCEPT !.thread_outputs = Append(@, w.out)]
  ELSE [call EXCEPT !.pc = "returned",
                    !.ret = [NoVerifyReturn EXCEPT !.tag = "err",
                                                   !.err = "Thread panicked during verification"]]

\* verify_password_finish with the decryption error passed on (`?`).
verify_password_finish_propagates(call, log) ==
  LET key == derive_key(call.thread_outputs)
      d == decrypt_phrase(log, key, call.hash.encrypted_phrase)
  IN  [call EXCEPT !.pc = "returned", !.key = key,
                   !.ret = IF d.ok
                           THEN [NoVerifyReturn EXCEPT !.tag = "ok",
                                                       !.val = (d.str = VerifierPhrase)]
                           ELSE [NoVerifyReturn EXCEPT !.tag = "err", !.err = d.err]]

\* verify_password after the join loop: key, decryption, comparison.
verify_password_finish(call, log) ==
  LET key == derive_key(call.thread_outputs)
      d == decrypt_phrase(log, key, call.hash.encrypted_phrase)
  IN  [call EXCEPT !.pc = "returned", !.key = key,
                   !.ret = [NoVerifyReturn EXCEPT !.tag = "ok",
                              !.val = IF d.ok THEN d.str = VerifierPhrase ELSE FALSE]]

\* ------------------------------------------------------------- inputs
\* 2^44 - 1 MB: the product fits the word, the worker's table does not.
HugeMB == <<65535, 65535, 4095, 0>>
\* 2^44 MB: the product is 2^64.
WrapMB == <<0, 0, 4096, 0>>

\* The memory_mb values a caller passes to hash_password.
MemoryMBs == {usize_zero, USize(1), HugeMB, WrapMB}

\* What stored records were made from: a salt, a nonce, and the key of
\* password 1 with that salt, 1 MB and `threads` workers.
StoredSalt == [i \in 1..SaltLen |-> <<0, i>>]
StoredNonce == [i \in 1..NonceLen |-> <<0, 200 + i>>]
StoredKey(threads) ==
  derive_key([k \in 1..threads |->
                thread_worker(1, StoredSalt, k - 1, memory_size_bytes(USize(1)).val)])

\* The encryptions that exist before the first call: the phrase of a stored
\* record with 1 worker, two other plaintexts under the same key, a phrase
\* under the key of no outputs, the phrase of a record with MaxThreads workers.
StoredSeals ==
  << [key |-> StoredKey(1), nonce |-> StoredNonce, pt |-> Plain(VERIFICATION_PHRASE)],
     [key |-> StoredKey(1), nonce |-> StoredNonce, pt |-> Plain("otra frase")],
     [key |-> StoredKey(1), nonce |-> StoredNonce, pt |-> [utf8 |-> FALSE, str |-> "bytes"]],
     [key |-> StoredKey(0), nonce |-> StoredNonce, pt |-> Plain(VERIFICATION_PHRASE)],
     [key |-> StoredKey(MaxThreads), nonce |-> StoredNonce, pt |-> Plain(VERIFICATION_PHRASE)] >>

StoredBlob(id) == StoredNonce \o gcm_output(StoredSeals, id)
Filler(n) == [i \in 1..n |-> <<0, (7 * i) % 256>>]

\* Record texts a caller may hold in storage.
StoredRecords ==
  { SinkproofHash(VersionV1, USize(1), USize(1), StoredSalt, StoredBlob(1)),
    SinkproofHash(VersionV1, USize(MaxThreads), USize(1), StoredSalt, StoredBlob(5)),
    SinkproofHash(VersionV1, USize(1), USize(1), StoredSalt, StoredBlob(2)),
    SinkproofHash(VersionV1, USize(1), USize(1), StoredSalt, StoredBlob(3)),
    SinkproofHash(VersionV1, usize_zero, USize(1), StoredSalt, StoredBlob(4)),
    SinkproofHash(VersionV1, USize(1), USize(1), StoredSalt, Filler(3)),
    SinkproofHash(VersionV1, USize(1), USize(1), StoredSalt, StoredNonce \o Filler(4)),
    SinkproofHash(VersionV1, USize(1), USize(1), StoredSalt, StoredNonce \o Filler(41)),
    SinkproofHash(VersionV1, USize(1), USize(1), StoredSalt,
                  SubSeq(StoredBlob(1), 1, Len(StoredBlob(1)) - 1)),
    SinkproofHash(VersionV1, USize(MaxThreads), HugeMB, StoredSalt, StoredBlob(1)),
    SinkproofHash(VersionV1, USize(1), WrapMB, StoredSalt, StoredBlob(1)),
    SinkproofHash(VersionV1, USize(1), usize_zero, Filler(3), StoredBlob(1)) }

RECURSIVE join(_, _)
join(fields, sep) ==
  IF Len(fields) = 1 THEN fields[1]
  ELSE fields[1] \o <<sep>> \o join(Tail(fields), sep)

\* Damage done to a stored text before it is presented.
Defects ==
  {"no_colon", "four_fields", "seven_fields", "name", "threads_letters",
   "threads_empty", "threads_minus", "memory_letters", "memory_point",
   "salt_alphabet", "salt_length", "phrase_alphabet", "phrase_padding",
   "threads_plus"}

damaged(text, defect) ==
  LET f == split(text, Colon)
      abc == Txt(<<97, 98, 99>>)
      bang == Txt(<<33, 33, 33, 33>>)
  IN  CASE defect = "no_colon" -> Txt(<<105, 110, 118, 97, 108, 105, 100>>)
        [] defect = "four_fields" -> join(SubSeq(f, 1, 4), Colon)
        [] defect = "seven_fields" -> join(Append(f, abc), Colon)
        [] defect = "name" -> join([f EXCEPT ![1] = Txt(<<87, 114, 111, 110, 103>>)], Colon)
        [] defect = "threads_letters" -> join([f EXCEPT ![3] = abc], Colon)
        [] defect = "threads_empty" -> join([f EXCEPT ![3] = <<>>], Colon)
        [] defect = "threads_minus" -> join([f EXCEPT ![3] = Txt(<<45, 49>>)], Colon)
        [] defect = "memory_letters" -> join([f EXCEPT ![4] = abc], Colon)
        [] defect = "memory_point" -> join([f EXCEPT ![4] = Txt(<<49, 46, 53>>)], Colon)
        [] defect = "salt_alphabet" -> join([f EXCEPT ![5] = bang], Colon)
        [] defect = "salt_length" -> join([f EXCEPT ![5] = SubSeq(@, 1, Len(@) - 1)], Colon)
        [] defect = "phrase_alphabet" -> join([f EXCEPT ![6] = bang], Colon)
        [] defect = "phrase_padding" -> join([f EXCEPT ![6] = <<PadChar>> \o @], Colon)
        [] defect = "threads_plus" -> join([f EXCEPT ![3] = <<<<43>>>> \o @], Colon)

\* The texts a caller may present to verify_password.
VerifyInputs ==
  IF h.pc = "idle"
  THEN {to_string(r) : r \in StoredRecords}
         \cup {damaged(to_string(r), d) :
                 r \in {SinkproofHash(VersionV1, USize(1), USize(1), StoredSalt, StoredBlob(1))},
                 d \in Defects}
  ELSE IF h.pc = "returned" /\ h.ret.tag = "ok" THEN {to_string(h.ret.hash)}
  ELSE {}

\* ------------------------------------------------------------- actions
Init ==
  /\ overflow_checks \in BOOLEAN
  /\ sealed = StoredSeals
  /\ h = HashIdle
  /\ v = VerifyIdle
  /\ codec = CodecIdle
  /\ tw = WorkerIdle
  /\ enc = EncryptIdle

HashPasswordCall ==
  /\ h.pc = "idle" /\ v.pc = "idle"
  /\ \E password \in Passwords, threads \in 0..MaxThreads, memory_mb \in MemoryMBs,
        salt \in generate_salt :
       h' = hash_password_enter(password, USize(threads), memory_mb, salt)
  /\ UNCHANGED <<overflow_checks, sealed, v, codec, tw, enc>>

HashPasswordSpawn ==
  /\ h.pc = "running"
  /\ Len(h.workers) < USizeToNat(h.threads)
  /\ h' = [h EXCEPT !.workers = spawn_worker(@)]
  /\ UNCHANGED <<overflow_checks, sealed, v, codec, tw, enc>>

HashPasswordWorker ==
  /\ \E i \in 1..Len(h.workers) :
       /\ h.workers[i].st = "running"
       /\ h' = [h EXCEPT !.workers[i] =
                               run_worker(h.password, h.salt, i - 1, h.memory_size),
                           !.finished = Append(@, i)]
  /\ UNCHANGED <<overflow_checks, sealed, v, codec, tw, enc>>

HashPasswordJoin ==
  /\ h.pc = "running"
  /\ Len(h.workers) = USizeToNat(h.threads)
  /\ Len(h.thread_outputs) < Len(h.workers)
  /\ LET w == h.workers[hash_next_handle(h.workers, h.thread_outputs)]
     IN  /\ w.st # "running"
         /\ h' = hash_password_joined(h, w)
  /\ UNCHANGED <<overflow_checks, sealed, v, codec, tw, enc>>

HashPasswordReturn ==
  /\ h.pc = "running"
  /\ Len(h.workers) = USizeToNat(h.threads)
  /\ Len(h.thread_outputs) = Len(h.workers)
  /\ \E nonce \in generate_nonce :
       LET r == hash_password_finish(h, sealed, nonce)
       IN  h' = r.call /\ sealed' = r.log
  /\ UNCHANGED <<overflow_checks, v, codec, tw, enc>>

VerifyPasswordCall ==
  /\ v.pc = "idle" /\ h.pc # "running"
  /\ \E password \in Passwords, stored_hash \in VerifyInputs :
       v' = verify_password_enter(password, stored_hash)
  /\ UNCHANGED <<overflow_checks, sealed, h, codec, tw, enc>>

VerifyPasswordSpawn ==
  /\ v.pc = "running"
  /\ Len(v.workers) < USizeToNat(v.hash.threads)
  /\ v' = [v EXCEPT !.workers = spawn_worker(@)]
  /\ UNCHANGED <<overflow_checks, sealed, h, codec, tw, enc>>

VerifyPasswordWorker ==
  /\ \E i \in 1..Len(v.workers) :
       /\ v.workers[i].st = "running"
       /\ v' = [v EXCEPT !.workers[i] =
                               run_worker(v.password, v.hash.salt, i - 1, v.memory_size),
                           !.finished = Append(@, i)]
  /\ UNCHANGED <<overflow_checks, sealed, h, codec, tw, enc>>

VerifyPasswordJoin ==
  /\ v.pc = "running"
  /\ Len(v.workers) = USizeToNat(v.hash.threads)
  /\ Len(v.thread_outputs) < Len(v.workers)
  /\ LET w == v.workers[verify_next_handle(v.workers, v.thread_outputs)]
     IN  /\ w.st # "running"
         /\ v' = verify_password_joined(v, w)
  /\ UNCHANGED <<overflow_checks, sealed, h, codec, tw, enc>>

VerifyPasswordReturn ==
  /\ v.pc = "running"
  /\ Len(v.workers) = USizeToNat(v.hash.threads)
  /\ Len(v.thread_outputs) = Len(v.workers)
  /\ v' = verify_password_finish(v, sealed)
  /\ UNCHANGED <<overflow_checks, sealed, h, codec, tw, enc>>

Next ==
  \/ HashPasswordCall
  \/ HashPasswordSpawn
  \/ HashPasswordWorker
  \/ HashPasswordJoin
  \/ HashPasswordReturn
  \/ VerifyPasswordCall
  \/ VerifyPasswordSpawn
  \/ VerifyPasswordWorker
  \/ VerifyPasswordJoin
  \/ VerifyPasswordReturn

Spec == Init /\ [][Next]_vars

\* The steps of a call once it has started: those of the calling thread and
\* those of the threads it spawned.
HashPasswordSteps ==
  HashPasswordSpawn \/ HashPasswordWorker \/ HashPasswordJoin \/ HashPasswordReturn

VerifyPasswordSteps ==
  VerifyPasswordSpawn \/ VerifyPasswordWorker \/ VerifyPasswordJoin \/ VerifyPasswordReturn

\* The threads of a call are scheduled: while any of them can take a step,
\* one of them eventually does.
Fairness == WF_vars(HashPasswordSteps) /\ WF_vars(VerifyPasswordSteps)

FairSpec == Spec /\ Fairness

\* ------------------------------------------------------------- codec runs
\* The byte values the codec round trip is run on.
ByteValues == {0, 165, 255}

RECURSIVE BytesUpTo(_)
BytesUpTo(n) ==
  IF n = 0 THEN {<<>>}
  ELSE LET shorter == BytesUpTo(n - 1)
       IN  shorter \cup {Append(s, <<0, b>>) : s \in {t \in shorter : Len(t) = n - 1},
                                               b \in ByteValues}

\* Byte strings that hold ciphertext bytes: a whole blob, a mixed group.
CodecSealedBytes ==
  {StoredBlob(1), <<<<0, 7>>>> \o SubSeq(gcm_output(StoredSeals, 1), 1, 1)}

CodecBytes == BytesUpTo(MaxBytesLen) \cup CodecSealedBytes

\* The (threads, memory_mb) pairs of the codec round trip.
CodecNumberPairs ==
  {<<usize_zero, USize(1)>>, <<USize(1), usize_zero>>, <<USize(9), USize(10)>>,
   <<USize(10), USize(65535)>>, <<USize(65536), USize(99)>>,
   <<HugeMB, WrapMB>>, <<WrapMB, <<65535, 65535, 65535, 65535>>>>,
   <<<<65535, 65535, 65535, 65535>>, HugeMB>>}

CodecInit ==
  /\ overflow_checks = FALSE
  /\ sealed = StoredSeals
  /\ h = HashIdle
  /\ v = VerifyIdle
  /\ \E n \in CodecNumberPairs, s \in CodecBytes, p \in CodecBytes :
       codec = [CodecIdle EXCEPT !.pc = "record",
                                 !.rec = SinkproofHash(VersionV1, n[1], n[2], s, p)]
  /\ tw = WorkerIdle
  /\ enc = EncryptIdle

codec_to_string ==
  /\ codec.pc = "record"
  /\ codec' = [codec EXCEPT !.pc = "text", !.text = to_string(codec.rec)]
  /\ UNCHANGED <<overflow_checks, sealed, h, v, tw, enc>>

codec_from_string ==
  /\ codec.pc = "text"
  /\ codec' = [codec EXCEPT !.pc = "parsed", !.parsed = from_string(codec.text)]
  /\ UNCHANGED <<overflow_checks, sealed, h, v, tw, enc>>

CodecNext == codec_to_string \/ codec_from_string

CodecSpec == CodecInit /\ [][CodecNext]_vars

\* ------------------------------------------------------------- thread_worker runs
\* thread_worker to the head of its loop: the first digest, the number of
\* iterations, the empty table; or the panic of with_capacity.
thread_worker_enter(w, password, salt, thread_index, memory_size) ==
  LET call == [WorkerIdle EXCEPT !.calls = w.calls + 1, !.first = w.first,
                                 !.password = password, !.salt = salt,
                                 !.thread_index = thread_index,
                                 !.memory_size = memory_size]
  IN  IF thread_worker_panics(memory_size)
      THEN [call EXCEPT !.pc = "panicked"]
      ELSE [call EXCEPT !.pc = "running",
                        !.current_hash = worker_h0(password, salt, thread_index),
                        !.iterations = USizeToNat(worker_iterations(memory_size))]

\* thread_worker from the end of its loop to its return.
thread_worker_return(w) ==
  [w EXCEPT !.pc = "returned", !.result = worker_output(w.memory, w.current_hash)]

\* The memory_size values of the calls that are followed: no entry, one,
\* fifteen, sixteen, seventeen, one past the second remix, and a size whose
\* table cannot be allocated.
WorkerShortSizes == {0, 31, 32, 33, 511, 512, 544}
WorkerLongSize == DigestLen * MaxIterations + 7

WorkerInputs ==
  {<<p, s, t, USize(m)>> : p \in Passwords, s \in generate_salt,
                           t \in 0..(MaxThreads - 1), m \in WorkerShortSizes}
    \cup {<<1, StoredSalt, 0, USize(WorkerLongSize)>>,
           <<1, StoredSalt, 0, memory_size_bytes(HugeMB).val>>}

WorkerInit ==
  /\ overflow_checks = FALSE
  /\ sealed = StoredSeals
  /\ h = HashIdle
  /\ v = VerifyIdle
  /\ codec = CodecIdle
  /\ tw = WorkerIdle
  /\ enc = EncryptIdle

ThreadWorkerCall ==
  /\ tw.pc = "idle"
  /\ \E in \in WorkerInputs : tw' = thread_worker_enter(tw, in[1], in[2], in[3], in[4])
  /\ UNCHANGED <<overflow_checks, sealed, h, v, codec, enc>>

ThreadWorkerIteration ==
  /\ tw.pc = "running"
  /\ tw.i < tw.iterations
  /\ tw' = [worker_iteration(tw) EXCEPT !.turns = @ + 1]
  /\ UNCHANGED <<overflow_checks, sealed, h, v, codec, enc>>

ThreadWorkerReturn ==
  /\ tw.pc = "running"
  /\ ~(tw.i < tw.iterations)
  /\ tw' = thread_worker_return(tw)
  /\ UNCHANGED <<overflow_checks, sealed, h, v, codec, enc>>

\* The same call made again once the first has returned.
ThreadWorkerCallAgain ==
  /\ tw.pc = "returned"
  /\ tw.calls = 1
  /\ tw' = thread_worker_enter([tw EXCEPT !.first = [result |-> tw.result,
                                                     memory |-> tw.memory]],
                               tw.password, tw.salt, tw.thread_index, tw.memory_size)
  /\ UNCHANGED <<overflow_checks, sealed, h, v, codec, enc>>

WorkerNext ==
  \/ ThreadWorkerCall
  \/ ThreadWorkerIteration
  \/ ThreadWorkerReturn
  \/ ThreadWorkerCallAgain

WorkerSpec == WorkerInit /\ [][WorkerNext]_vars

\* ------------------------------------------------------------- encrypt_phrase runs
\* A key of `len` bytes that is not a digest.
RawKey(len) == [len |-> len, src |-> <<"bytes", len>>]

\* The keys encrypt_phrase and decrypt_phrase are called with: shorter than,
\* equal to and longer than 32 bytes, and a derived key.
EncryptKeys ==
  {RawKey(0), RawKey(5), RawKey(16), RawKey(31), RawKey(32), RawKey(33),
   RawKey(48), RawKey(64), StoredKey(1)}

\* What the random source may return for a nonce after `drawn`: a 96-bit
\* value it has not returned before.
fresh_nonces(drawn) ==
  {[i \in 1..NonceLen |-> <<0, (32 * n + i) % 256>>] : n \in 1..MaxEncryptCalls}
    \ {drawn[k] : k \in 1..Len(drawn)}

EncryptInit ==
  /\ overflow_checks = FALSE
  /\ sealed = StoredSeals
  /\ h = HashIdle
  /\ v = VerifyIdle
  /\ codec = CodecIdle
  /\ tw = WorkerIdle
  /\ \E key \in EncryptKeys : enc = [EncryptIdle EXCEPT !.pc = "key", !.key = key]

EncryptPhraseCall ==
  /\ enc.pc = "key"
  /\ Len(enc.blobs) < MaxEncryptCalls
  /\ \E nonce \in fresh_nonces(enc.nonces) :
       LET r == encrypt_phrase(sealed, enc.key, nonce)
       IN  /\ sealed' = r.log
           /\ enc' = [enc EXCEPT !.nonces = Append(@, nonce),
                                  !.blobs = Append(@, r.bytes)]
  /\ UNCHANGED <<overflow_checks, h, v, codec, tw>>

DecryptPhraseCall ==
  /\ enc.pc = "key"
  /\ \E k \in 1..Len(enc.blobs) :
       /\ ~enc.opened[k].done
       /\ enc' = [enc EXCEPT !.opened[k] =
                     [done |-> TRUE, res |-> decrypt_phrase(sealed, enc.key, enc.blobs[k])]]
  /\ UNCHANGED <<overflow_checks, sealed, h, v, codec, tw>>

EncryptNext == EncryptPhraseCall \/ DecryptPhraseCall

EncryptSpec == EncryptInit /\ [][EncryptNext]_vars

\* ------------------------------------------------------------- properties
HashReturnedRecord == h.pc = "returned" /\ h.ret.tag = "ok"
VerifyEnded == v.pc \in {"returned", "panicked"}
VerifyOfOwnText == HashReturnedRecord /\ VerifyEnded /\ v.stored_hash = to_string(h.ret.hash)

\* C1. Round trip: once hash_password has returned a record, verify_password
\* of the same password and the record's text ends by returning Ok(true), for
\* every salt, nonce and order in which the workers of either call finished.
C1_RoundTrip ==
  (VerifyOfOwnText /\ v.password = h.password)
    => (v.pc = "returned" /\ v.ret.tag = "ok" /\ v.ret.val)

\* Both calls ran two or more workers, which finished in different orders.
C1_Witness ==
  /\ VerifyOfOwnText /\ v.password = h.password
  /\ Len(h.finished) >= 2 /\ h.finished # v.finished
  /\ v.ret.tag = "ok" /\ v.ret.val

\* C2. Rejection: verify_password of a password other than the one hashed,
\* on the text of a record hash_password returned, ends by returning Ok(false),
\* not an Err.
C2_Rejection ==
  (VerifyOfOwnText /\ v.password # h.password)
    => (v.pc = "returned" /\ v.ret.tag = "ok" /\ ~v.ret.val)

C2_Witness ==
  /\ VerifyOfOwnText /\ v.password # h.password
  /\ Len(v.finished) >= 2
  /\ v.ret.tag = "ok" /\ ~v.ret.val

\* The key of the password presented to verify_password under the parsed
\* record's salt, thread count and memory.
VerifyKeyOfInputs ==
  Sha256([k \in 1..USizeToNat(v.hash.threads) |->
            thread_worker(v.password, v.hash.salt, k - 1, v.memory_size)])

\* The encryptions whose nonce and output make up the blob and whose key is `key`.
OpenedBy(blob, key) ==
  {id \in 1..Len(sealed) :
     sealed[id].key = key /\ blob = sealed[id].nonce \o gcm_output(sealed, id)}

VerifyAllWorkersCompleted ==
  /\ Len(v.workers) = USizeToNat(v.hash.threads)
  /\ \A i \in 1..Len(v.workers) : v.workers[i].st = "done"

\* C3. When the text parses and every worker completed, verify_password
\* returns Ok(b), with b true exactly when the blob opens under the re-derived
\* key to the fixed phrase; a blob shorter than 12 bytes, one of 12..27 bytes,
\* one that does not open (tag mismatch) and one that opens to bytes that are
\* not UTF-8 each give Ok(false).
C3_VerifyResult ==
  (v.pc = "returned" /\ from_string(v.stored_hash).ok /\ VerifyAllWorkersCompleted)
    => LET blob == v.hash.encrypted_phrase
           ids == OpenedBy(blob, VerifyKeyOfInputs)
       IN  /\ v.ret.tag = "ok"
           /\ v.ret.val <=> (\E id \in ids : sealed[id].pt = Plain(VERIFICATION_PHRASE))
           /\ Len(blob) < NonceLen => ~v.ret.val
           /\ (Len(blob) >= NonceLen /\ Len(blob) < NonceLen + TagLen) => ~v.ret.val
           /\ ids = {} => ~v.ret.val
           /\ (\E id \in ids : ~sealed[id].pt.utf8) => ~v.ret.val

\* The blob opened under the right key to bytes that are not UTF-8.
C3_Witness ==
  /\ v.pc = "returned" /\ VerifyAllWorkersCompleted
  /\ \E id \in OpenedBy(v.hash.encrypted_phrase, VerifyKeyOfInputs) : ~sealed[id].pt.utf8
  /\ v.ret.tag = "ok" /\ ~v.ret.val

\* C4. Config validation: hash_password with threads = 0 or memory_mb = 0
\* returns an error, with no salt generated, no worker launched and no record.
C4_ConfigValidation ==
  (h.pc # "idle" /\ (h.threads = usize_zero \/ h.memory_mb = usize_zero))
    => /\ h.pc = "returned" /\ h.ret.tag = "err" /\ h.ret.hash = NoRecord
       /\ h.salt = <<>> /\ h.workers = <<>> /\ h.key = NoDigest

C4_Witness ==
  /\ h.pc = "returned" /\ h.threads # usize_zero /\ h.memory_mb = usize_zero
  /\ h.ret.tag = "err"

NoWorkerRunning(call) == \A i \in 1..Len(call.workers) : call.workers[i].st # "running"

\* C5. Join barrier: a call has neither derived the key nor returned while a
\* worker it launched is still running, also when a worker failed.
C5_JoinBarrier ==
  /\ (h.pc = "returned" \/ h.key # NoDigest) => NoWorkerRunning(h)
  /\ (v.pc = "returned" \/ v.key # NoDigest) => NoWorkerRunning(v)

SomeWorkerPanicked(call) == \E i \in 1..Len(call.workers) : call.workers[i].st = "panicked"

\* C6. Fail-fast: a call that has returned with one of its workers panicked
\* returned an error and nothing else; the key is only ever derived from one
\* digest per launched worker; no worker is launched or run a second time.
C6_FailFast ==
  /\ (h.pc = "returned" /\ SomeWorkerPanicked(h))
       => (h.ret.tag = "err" /\ h.ret.hash = NoRecord /\ h.key = NoDigest)
  /\ (v.pc = "returned" /\ SomeWorkerPanicked(v))
       => (v.ret.tag = "err" /\ ~v.ret.val /\ v.key = NoDigest)
  /\ h.key # NoDigest => (Len(h.thread_outputs) = USizeToNat(h.threads) /\ ~SomeWorkerPanicked(h))
  /\ v.key # NoDigest => (Len(v.thread_outputs) = USizeToNat(v.hash.threads) /\ ~SomeWorkerPanicked(v))
  /\ Len(h.workers) <= USizeToNat(h.threads) /\ Len(h.finished) <= Len(h.workers)
  /\ Len(v.workers) <= USizeToNat(v.hash.threads) /\ Len(v.finished) <= Len(v.workers)

\* hash_password returned the error of a panicked worker.
C6_Witness ==
  /\ h.pc = "returned" /\ SomeWorkerPanicked(h) /\ Len(h.workers) >= 2
  /\ h.ret.tag = "err"

\* One digest per thread index, in ascending index order.
DigestsInIndexOrder(password, salt, n, memory_size) ==
  [k \in 1..n |-> thread_worker(password, salt, k - 1, memory_size)]

\* C7. Digest ordering: the list handed to derive_key holds the digest of
\* thread index 0, 1, .. threads-1 in that order, whatever order the workers
\* finished in, so the key is a function of the call's inputs alone.
C7_DigestOrder ==
  /\ h.key # NoDigest =>
       /\ h.thread_outputs = DigestsInIndexOrder(h.password, h.salt,
                                                 USizeToNat(h.threads), h.memory_size)
       /\ h.key = Sha256(h.thread_outputs)
  /\ v.key # NoDigest =>
       /\ v.thread_outputs = DigestsInIndexOrder(v.password, v.hash.salt,
                                                 USizeToNat(v.hash.threads), v.memory_size)
       /\ v.key = Sha256(v.thread_outputs)

\* The key was derived after the worker of index 1 finished before that of index 0.
C7_Witness ==
  /\ h.key # NoDigest /\ Len(h.finished) >= 2
  /\ h.finished[1] = 2 /\ h.finished[2] = 1

RecordInvariant(r) ==
  r.threads # usize_zero /\ r.memory_mb # usize_zero /\ Len(r.salt) = SaltLen

ReadFromSinkproofText(text) ==
  LET f == split(text, Colon) IN Len(f) = 6 /\ f[1] = SinkproofName

\* verify_password's call of from_string returned a record.
FromStringReturnedRecord == v.pc # "idle" /\ v.hash # NoRecord

\* C8 as stated. Every record returned by hash_password or by from_string has
\* threads > 0, memory_mb > 0 and a 32-byte salt (and was read from text whose
\* first field is Sinkproof).
C8_RecordInvariant ==
  /\ HashReturnedRecord => RecordInvariant(h.ret.hash)
  /\ FromStringReturnedRecord =>
       (RecordInvariant(v.hash) /\ ReadFromSinkproofText(v.stored_hash))

\* C8 amended. Every record returned by hash_password has threads > 0,
\* memory_mb > 0 and a 32-byte salt; every record returned by from_string was
\* read from a text of six fields whose first field is Sinkproof (from_string
\* checks neither the two numbers against zero nor the length of the salt).
C8_RecordInvariantOfHash ==
  /\ HashReturnedRecord => RecordInvariant(h.ret.hash)
  /\ FromStringReturnedRecord => ReadFromSinkproofText(v.stored_hash)

\* hash_password returned a record and from_string parsed its text.
C8_Witness ==
  HashReturnedRecord /\ FromStringReturnedRecord /\ v.hash = h.ret.hash

ColonCount(text) == Cardinality({i \in 1..Len(text) : text[i] = Colon})

\* C9. Codec round trip: from_string(to_string(r)) succeeds and returns r in
\* all five fields; to_string(r) has exactly 6 fields between its colons.
C9_CodecRoundTrip ==
  /\ codec.pc \in {"text", "parsed"} => ColonCount(codec.text) = 5
  /\ codec.pc = "parsed" => (codec.parsed.ok /\ codec.parsed.val = codec.rec)

\* A record with usize::MAX threads, a 1-byte salt and a 2-byte phrase went
\* through to_string and from_string.
C9_Witness ==
  /\ codec.pc = "parsed" /\ codec.parsed.ok
  /\ codec.rec.threads = <<65535, 65535, 65535, 65535>>
  /\ Len(codec.rec.salt) = 1 /\ Len(codec.rec.encrypted_phrase) = 2

\* A field that is not an optional '+' followed by one or more digits.
NonNumeric(t) ==
  LET d == IF t # <<>> /\ t[1] = <<43>> THEN Tail(t) ELSE t
  IN  d = <<>> \/ \E i \in 1..Len(d) : ~IsDigit(d[i])

\* A field that is not base64 text: a length that is no multiple of 4, a
\* character outside the alphabet, or '=' anywhere but at the end.
InvalidBase64(t) ==
  \/ Len(t) % 4 # 0
  \/ \E i \in 1..Len(t) : IsConcreteChar(t[i]) /\ t[i] # PadChar /\ B64Index(t[i][1]) < 0
  \/ \E i \in 1..Len(t) : t[i] = PadChar /\ (i < Len(t) - 1 \/ t[Len(t)] # PadChar)

Malformed(text) ==
  LET f == split(text, Colon)
  IN  \/ Len(f) # 6
      \/ f[1] # SinkproofName
      \/ NonNumeric(f[3]) \/ NonNumeric(f[4])
      \/ InvalidBase64(f[5]) \/ InvalidBase64(f[6])

FormatErrorOf(text) ==
  LET f == split(text, Colon)
  IN  IF Len(f) # 6 THEN "Invalid hash format"
      ELSE IF f[1] # SinkproofName THEN "Invalid hash name"
      ELSE IF NonNumeric(f[3]) THEN "Invalid threads value"
      ELSE IF NonNumeric(f[4]) THEN "Invalid memory value"
      ELSE IF InvalidBase64(f[5]) THEN "Invalid salt encoding"
      ELSE "Invalid encrypted phrase encoding"

\* C10. Malformed rejection: on a text with a field count other than 6, a
\* first field other than Sinkproof, a non-numeric threads or memory field or
\* an invalid base64 salt or phrase, verify_password returns from_string's
\* error for the first such field and launches no worker.
C10_MalformedRejection ==
  (v.pc # "idle" /\ Malformed(v.stored_hash))
    => /\ v.pc = "returned" /\ v.ret.tag = "err"
       /\ v.ret.err = FormatErrorOf(v.stored_hash)
       /\ v.hash = NoRecord /\ v.workers = <<>> /\ v.finished = <<>>

\* verify_password returned the error of an invalid base64 phrase field.
C10_Witness ==
  /\ v.pc = "returned" /\ v.ret.tag = "err"
  /\ v.ret.err = "Invalid encrypted phrase encoding"
  /\ v.workers = <<>>

TableEntries(w) == USizeToNat(w.memory_size) \div 32

\* C15. Worker output selection: with n = floor(memory_size / 32) entries in
\* the table, thread_worker returns the last 16 entries when n >= 16, the n
\* entries followed by the final chain value (the last entry) up to 512 bytes
\* when 0 < n < 16, and h0 = Hash(password, salt, thread_index) 16 times
\* when n = 0.
C15_OutputSelection ==
  tw.pc = "returned" =>
    LET n == TableEntries(tw)
        h0 == Sha256(<<tw.password, tw.salt, USize(tw.thread_index)>>)
    IN  /\ Len(tw.memory) = n
        /\ tw.result =
             IF n >= 16 THEN [k \in 1..16 |-> Entry(n - 16 + k - 1)]
             ELSE IF n > 0
               THEN [k \in 1..16 |-> IF k <= n THEN Entry(k - 1) ELSE Entry(n - 1)]
             ELSE [k \in 1..16 |-> h0]

\* A call with a table of 15 entries returned.
C15_Witness ==
  /\ tw.pc = "returned" /\ tw.memory_size = USize(511)
  /\ Len(tw.memory) = 15 /\ tw.result[16] = Entry(14)

\* Whether a table entry is a chained, XORed and rotated digest (and not the
\* digest of a remix), and the digest such an entry was chained from.
IsPreRemix(e) == "digest" \in DOMAIN e
ChainInput(e) == IF IsPreRemix(e) THEN e.digest.src[2][1] ELSE NoDigest

\* The chaining input of iteration i + 1: what memory[i + 1] was chained
\* from, or current_hash when iteration i + 1 has not run yet.
ChainInputAfter(w, i) ==
  IF i + 2 <= Len(w.memory) THEN ChainInput(w.memory[i + 2]) ELSE w.current_hash

\* C16. Remix ordering: every table entry is a pre-remix value; after an
\* iteration i with i > 1000 and i mod 500 = 0 the chaining input of
\* iteration i + 1 is Hash(table[i], table[i / 2]); after every other
\* iteration it is table[i].
C16_RemixOrdering ==
  \A i \in 0..(Len(tw.memory) - 1) :
    /\ IsPreRemix(tw.memory[i + 1])
    /\ ChainInputAfter(tw, i) =
         IF i > 1000 /\ i % 500 = 0
         THEN Sha256(<<Entry(i), Entry(i \div 2)>>)
         ELSE Entry(i)

\* Iteration 1501 was chained from the remix of iteration 1500.
C16_Witness ==
  /\ Len(tw.memory) >= 1502
  /\ IsPreRemix(tw.memory[1501])
  /\ ChainInput(tw.memory[1502]) = Sha256(<<Entry(1500), Entry(750)>>)

\* The distant entry of the remix that produced `digest`.
RemixPartner(digest) == digest.src[2][2]

\* C17. Table-length invariant: at the start of iteration i the table holds i
\* entries (so i > 0 exactly when the table is non-empty); entry 0 is not
\* XORed and every later entry is XORed with entry 0; the remix of iteration i
\* reads entry i / 2.
C17_TableLength ==
  /\ tw.pc \in {"running", "returned"} =>
       (Len(tw.memory) = tw.i /\ (tw.i > 0 <=> tw.memory # <<>>))
  /\ \A i \in 0..(Len(tw.memory) - 1) :
       /\ "xor_with" \in DOMAIN tw.memory[i + 1]
       /\ tw.memory[i + 1].xor_with = IF i > 0 THEN <<Entry(0)>> ELSE <<>>
       /\ (i > 1000 /\ i % 500 = 0)
            => RemixPartner(ChainInputAfter(tw, i)) = Entry(i \div 2)

\* The loop is at the start of iteration 2001, past the remix of iteration 2000.
C17_Witness ==
  /\ tw.pc = "running" /\ tw.i = 2001 /\ Len(tw.memory) = 2001
  /\ tw.memory[2001].xor_with = <<Entry(0)>>
  /\ RemixPartner(tw.current_hash) = Entry(1000)

\* C12. Nonce uniqueness: two encrypt_phrase calls with the same key return
\* different blobs, each a 12-byte nonce followed by ciphertext and tag; each
\* blob decrypts to the fixed phrase under that key, for keys shorter than,
\* of, and longer than 32 bytes.
C12_NonceUniqueness ==
  /\ \A j, k \in 1..Len(enc.blobs) : j # k => enc.blobs[j] # enc.blobs[k]
  /\ \A k \in 1..Len(enc.blobs) :
       /\ SubSeq(enc.blobs[k], 1, 12) = enc.nonces[k]
       /\ Len(enc.blobs[k]) = 12 + Len(VERIFICATION_PHRASE) + 16
       /\ enc.opened[k].done =>
            (enc.opened[k].res.ok /\ enc.opened[k].res.str = "No vendo cigarros sueltos")

\* Two blobs made under a 5-byte key were both decrypted.
C12_Witness ==
  /\ enc.key.len = 5 /\ Len(enc.blobs) = 2
  /\ enc.opened[1].done /\ enc.opened[2].done
  /\ enc.opened[2].res.ok

\* The join loop waits on a handle that was pushed.
WaitsOnLaunched ==
  /\ (h.pc = "running" /\ Len(h.workers) = USizeToNat(h.threads)
        /\ Len(h.thread_outputs) < Len(h.workers))
       => hash_next_handle(h.workers, h.thread_outputs) \in 1..Len(h.workers)
  /\ (v.pc = "running" /\ Len(v.workers) = USizeToNat(v.hash.threads)
        /\ Len(v.thread_outputs) < Len(v.workers))
       => verify_next_handle(v.workers, v.thread_outputs) \in 1..Len(v.workers)

\* A call panics only at an overflowing memory_mb * 1024 * 1024 in a build
\* that checks overflow.
PanicsOnlyOnOverflow ==
  /\ h.pc = "panicked" => (overflow_checks /\ memory_size_bytes(h.memory_mb).overflow)
  /\ v.pc = "panicked" => (overflow_checks /\ memory_size_bytes(v.hash.memory_mb).overflow)

C13_WorkerLoopCount ==
  tw.pc = "returned" =>
    (tw.turns = USizeToNat(tw.memory_size) \div 32 /\ tw.i = tw.turns)

\* memory_mb below 2^44: memory_mb * 1024 * 1024 fits the 64-bit word.
BudgetFits(memory_mb) == memory_mb[4] = 0 /\ memory_mb[3] < 4096

\* memory_size is memory_mb * 1024 * 1024: dividing it back gives memory_mb.
BudgetExact(memory_size, memory_mb) ==
  LET kb == UDivSmall(memory_size, 1024)
      mb == UDivSmall(kb.quot, 1024)
  IN  kb.rem = 0 /\ mb.rem = 0 /\ mb.quot = memory_mb

\* hash_password went past its two checks of the configuration.
HashAccepted == h.pc # "idle" /\ h.threads # usize_zero /\ h.memory_mb # usize_zero

\* C14. Memory budget arithmetic: for every memory_mb hash_password accepts
\* and every memory_mb from_string parses, the multiplication neither aborts
\* nor wraps and the budget is memory_mb * 1024 * 1024; hash and verify of the
\* same record use the same budget.
C14_MemoryBudget ==
  /\ HashAccepted =>
       (h.pc # "panicked" /\ BudgetFits(h.memory_mb) /\ BudgetExact(h.memory_size, h.memory_mb))
  /\ FromStringReturnedRecord =>
       (v.pc # "panicked" /\ BudgetFits(v.hash.memory_mb)
          /\ BudgetExact(v.memory_size, v.hash.memory_mb))
  /\ (VerifyOfOwnText /\ v.pc = "returned") => v.memory_size = h.memory_size

====
